---- MODULE Spec2Model ----
(***************************************************************************)
(* Signal decoding of dbc/dbc_classes.cpp: DBC_SIGNAL::processAsText,      *)
(* processAsInt and processAsDouble, with the multiplexor recursion run    *)
(* step by step on a call stack, one decode call per thread.               *)
(*                                                                         *)
(* Numbers.  int32_t / int64_t values are two's-complement bit sets: the   *)
(* set of bit positions (0 = least significant) that are 1.  A double is   *)
(* [kind, neg, mag]: mag is the set of binary exponents whose sum is the   *)
(* magnitude, so every finite double is represented exactly and every      *)
(* arithmetic result is rounded to 53 significant bits as IEEE-754 does.   *)
(***************************************************************************)
EXTENDS Integers, Sequences, FiniteSets, TLC

\* ------------------------------------------------------------ bit sets

Min(S) == CHOOSE x \in S : \A y \in S : x <= y

Max(S) == 0 - Min({0 - x : x \in S})

RECURSIVE Pow2(_)
Pow2(n) == IF n = 0 THEN 1 ELSE 2 * Pow2(n - 1)

Shift(S, k) == {i + k : i \in S}

\* Binary addition of two magnitudes given as sets of exponents.
RECURSIVE AddMag(_, _)
AddMag(A, B) ==
    IF B = {} THEN A
    ELSE AddMag((A \ B) \cup (B \ A), Shift(A \cap B, 1))

\* Binary subtraction A - B of magnitudes, for A >= B.
RECURSIVE SubMag(_, _)
SubMag(A, B) ==
    IF B = {} THEN A
    ELSE SubMag((A \ B) \cup (B \ A), Shift(B \ A, 1))

LessMag(A, B) ==
    LET D == (A \ B) \cup (B \ A) IN D # {} /\ Max(D) \in B

\* value of a small non-negative bit set as a number
RECURSIVE MagToNat(_)
MagToNat(S) ==
    IF S = {} THEN 0 ELSE LET i == Max(S) IN Pow2(i) + MagToNat(S \ {i})

\* set of 1-bits of a small natural number
RECURSIVE NatToMag(_, _)
NatToMag(n, i) ==
    IF n = 0 THEN {}
    ELSE (IF n % 2 = 1 THEN {i} ELSE {}) \cup NatToMag(n \div 2, i + 1)

\* Two's-complement negation in width w.
NegBits(S, w) ==
    LET inv == (0 .. (w - 1)) \ S
    IN  {i \in AddMag(inv, {0}) : i < w}

\* An int literal of the program (a value-table key, a multiplex selector)
\* as a w-bit two's-complement bit set.
IntBits(v, w) ==
    IF v >= 0 THEN NatToMag(v, 0) ELSE NegBits(NatToMag(0 - v, 0), w)

\* int64_t -> int32_t: the low 32 bits.
ToInt32(S) == S \cap (0 .. 31)

\* int32_t -> int64_t: sign extension.
ToInt64(S) == IF 31 \in S THEN S \cup (32 .. 63) ELSE S

\* ------------------------------------------------------------ doubles

Zero == [kind |-> "fin", neg |-> FALSE, mag |-> {}]

NaN == [kind |-> "nan", neg |-> FALSE, mag |-> {}]

Inf(n) == [kind |-> "inf", neg |-> n, mag |-> {}]

\* Each operator below binds its operands once (v \in {x}) and works on the
\* bound values.

\* Round the magnitude M, whose lowest kept exponent is cut, to nearest, ties
\* to even; overflow to infinity.
RoundAt(neg, M, cut) ==
    LET low  == {i \in M : i < cut}
        kept == {i \in M : i >= cut}
        up   == \/ (cut - 1) \in low /\ low # {cut - 1}
                \/ low = {cut - 1} /\ cut \in kept
    IN  IF ~up /\ kept = {} THEN Zero
        ELSE CHOOSE d \in {IF Max(R) > 1023 THEN Inf(neg)
                           ELSE [kind |-> "fin", neg |-> neg, mag |-> R] :
                              R \in {IF up THEN AddMag(kept, {cut}) ELSE kept}} : TRUE

\* Round a magnitude to a double's 53 significant bits (subnormals keep bits
\* down to 2^-1074).
RoundMag(neg, M) ==
    IF M = {} THEN Zero
    ELSE CHOOSE d \in {RoundAt(neg, M, IF top - 52 > 0 - 1074 THEN top - 52 ELSE 0 - 1074) :
                          top \in {Max(M)}} : TRUE

Fin(neg, M) == CHOOSE d \in {RoundMag(neg, m) : m \in {M}} : TRUE

\* (double)x for a w-bit signed integer x.
IntToDouble(S, w) ==
    CHOOSE d \in {IF (w - 1) \in s THEN Fin(TRUE, NegBits(s, w)) ELSE Fin(FALSE, s) :
                     s \in {S}} : TRUE

RECURSIVE MulMag(_, _)
MulMag(A, B) ==
    IF B = {} THEN {}
    ELSE LET k == Min(B) IN AddMag(Shift(A, k), MulMag(A, B \ {k}))

Product(x, y) ==
    IF x.kind = "nan" \/ y.kind = "nan" THEN NaN
    ELSE IF x.kind = "inf" \/ y.kind = "inf"
         THEN IF (x.kind = "fin" /\ x.mag = {}) \/ (y.kind = "fin" /\ y.mag = {})
              THEN NaN ELSE Inf(x.neg # y.neg)
    ELSE Fin(x.neg # y.neg, MulMag(x.mag, y.mag))

\* x * y
DMul(x, y) == CHOOSE d \in {Product(a, b) : a \in {x}, b \in {y}} : TRUE

Sum(x, y) ==
    IF x.kind = "nan" \/ y.kind = "nan" THEN NaN
    ELSE IF x.kind = "inf"
         THEN IF y.kind = "inf" /\ y.neg # x.neg THEN NaN ELSE x
    ELSE IF y.kind = "inf" THEN y
    ELSE IF x.neg = y.neg THEN Fin(x.neg, AddMag(x.mag, y.mag))
    ELSE IF LessMag(x.mag, y.mag) THEN Fin(y.neg, SubMag(y.mag, x.mag))
    ELSE Fin(x.neg, SubMag(x.mag, y.mag))

\* x + y
DAdd(x, y) == CHOOSE d \in {Sum(a, b) : a \in {x}, b \in {y}} : TRUE

\* The value with sign neg, exponent field ex and mantissa field man, for a
\* format of e exponent bits and m mantissa bits.
IeeeFields(neg, ex, man, e, m) ==
    IF ex = Pow2(e) - 1 THEN (IF man = {} THEN Inf(neg) ELSE NaN)
    ELSE IF ex = 0 THEN Fin(neg, Shift(man, 2 - Pow2(e - 1) - m))
    ELSE Fin(neg, Shift(man \cup {m}, ex - (Pow2(e - 1) - 1) - m))

\* The IEEE-754 value of a bit pattern with e exponent bits above m mantissa
\* bits (float: 8 / 23, double: 11 / 52).
IeeePattern(s, e, m) ==
    CHOOSE d \in {IeeeFields((e + m) \in s, ex, {i \in s : i < m}, e, m) :
                     ex \in {MagToNat(Shift({i \in s : i >= m /\ i < e + m}, 0 - m))}} : TRUE

IeeeValue(S, e, m) == CHOOSE d \in {IeeePattern(s, e, m) : s \in {S}} : TRUE

\* *((float *)(&result)) on a little-endian host: the low four bytes of result.
FloatOfBits(S) == IeeeValue(ToInt32(S), 8, 23)

\* *((double *)(&result))
DoubleOfBits(S) == IeeeValue(S, 11, 52)

\* x, truncated toward zero, is a value of a w-bit signed integer.
Representable(x, w) ==
    /\ x.kind = "fin"
    /\ LET T == {i \in x.mag : i >= 0}
       IN  \/ T = {}
           \/ Max(T) < w - 1
           \/ x.neg /\ T = {w - 1}

\* (intW_t)x: truncation toward zero. A value the target type cannot hold is
\* undefined behaviour: the result is then the bit set `undef`.
DoubleToInt(x, w, undef) ==
    IF ~Representable(x, w) THEN undef
    ELSE LET T == {i \in x.mag : i >= 0}
         IN  IF x.neg THEN NegBits(T, w) ELSE T

\* ------------------------------------------------------------ definitions

MaxFrameLen == 8

StackLimit == 4

NULL == 0

ValTypes == {"SIGNED_INT", "UNSIGNED_INT", "SP_FLOAT", "DP_FLOAT", "STRING"}

D(neg, M) == [kind |-> "fin", neg |-> neg, mag |-> M]

\* A DBC_SIGNAL. Its parentMessage is the one message of the model.
Signal(nm, vt, sb, sz, intel, mux, mv, f, b, vl) ==
    [name |-> nm, valType |-> vt, startBit |-> sb, signalSize |-> sz,
     intelByteOrder |-> intel, isMultiplexed |-> mux, multiplexValue |-> mv,
     factor |-> f, bias |-> b, unitName |-> "u", valList |-> vl]

\* ------------------------------------------------------------ frames

\* Byte x (0-based) of frame.data; a read at or past frame.len is out of range
\* and yields whatever lies there: all-zero or all-one bits, by `u`.
Byte(frame, u, x) ==
    IF x >= 0 /\ x < frame.len THEN frame.data[x + 1] ELSE u * 255

\* data[bit / 8] & (1 << (bit % 8))
BitAt(frame, u, bit) == (Byte(frame, u, bit \div 8) \div Pow2(bit % 8)) % 2

\* ------------------------------------------------------------ extraction

\* The bit consumed after `bit`: Intel order counts up; Motorola order counts
\* down within the byte and goes on at bit 7 of the next byte.
NextBit(bit, littleEndian) ==
    IF littleEndian THEN bit + 1
    ELSE IF bit % 8 = 0 THEN bit + 15 ELSE bit - 1

\* The frame bits a signal consumes, in the order they are consumed.
RECURSIVE BitIndices(_, _, _)
BitIndices(startBit, sigSize, littleEndian) ==
    IF sigSize = 0 THEN <<>>
    ELSE <<startBit>> \o BitIndices(NextBit(startBit, littleEndian), sigSize - 1, littleEndian)

\* The weight (as a power of two) of the bit consumed at step bitpos = 0, 1, ...
\* Intel: each bit is worth twice the last; Motorola: the first bit is worth most.
Weight(bitpos, sigSize, littleEndian) ==
    IF littleEndian THEN bitpos ELSE sigSize - bitpos - 1

\* The extraction loop: the weights of the 1-bits from step bitpos on.
RECURSIVE ExtractFrom(_, _, _, _, _, _)
ExtractFrom(frame, u, bit, bitpos, sigSize, littleEndian) ==
    IF bitpos >= sigSize THEN {}
    ELSE (IF BitAt(frame, u, bit) = 1 THEN {Weight(bitpos, sigSize, littleEndian)} ELSE {})
         \cup ExtractFrom(frame, u, NextBit(bit, littleEndian), bitpos + 1, sigSize, littleEndian)

\* Utility::processIntegerSignal(data, startBit, sigSize, littleEndian, isSigned):
\* the extracted magnitude, sign-extended from its top bit when isSigned.
ProcessIntegerSignal(frame, u, startBit, sigSize, littleEndian, isSigned) ==
    LET mag == ExtractFrom(frame, u, startBit, 0, sigSize, littleEndian)
    IN  IF isSigned /\ (sigSize - 1) \in mag
        THEN mag \cup (sigSize .. 63) ELSE mag

\* ------------------------------------------------------------ decoding

\* What a decode call hands back: the bool it returns (ok), the value written
\* to outString / outValue (out), and, for the record, the frame bits it read
\* in order (reads; a byte read lists the byte's first bit), the extracted
\* integer (raw), endResult, and the local `result` the value list is
\* searched with (key).
R(ok, out, reads, raw, endResult, key) ==
    [ok |-> ok, out |-> out, reads |-> reads, raw |-> raw,
     endResult |-> endResult, key |-> key]

FailOut(fn) == IF fn = "text" THEN <<>> ELSE IF fn = "int" THEN {} ELSE Zero

\* return false
Failure(fn) == R(FALSE, FailOut(fn), <<>>, {}, Zero, {})

\* What a float-to-integer conversion of an unrepresentable value produces
\* (undefined behaviour): the most negative or the most positive integer.
UndefInt(u, w) == IF u = 0 THEN {w - 1} ELSE 0 .. (w - 2)

\* ((double)result * factor) + bias
Scale(x, sig) == DAdd(DMul(x, sig.factor), sig.bias)

\* QString::number(endResult): the text of the number, kept as the number.
QStringNumber(d) == [number |-> d]

\* Lines 97-121: the value list lookup and the output text.
TextTail(sig, result, endResult, reads, raw) ==
    LET hits == {x \in 1 .. Len(sig.valList) :
                    IntBits(sig.valList[x].value, 64) = result}
        body == IF Len(sig.valList) > 0 /\ hits # {}
                THEN <<sig.valList[Min(hits)].descript>>
                ELSE <<QStringNumber(endResult), sig.unitName>>
    IN  R(TRUE, <<sig.name, ": ">> \o body, reads, raw, endResult, result)

\* Lines 45-53: the STRING branch of processAsText.
TextString(sig, frame, u) ==
    LET startByte == sig.startBit \div 8
        bytes     == sig.signalSize \div 8
        text      == [x \in 1 .. bytes |-> Byte(frame, u, startByte + x - 1)]
    IN  R(TRUE, text, [x \in 1 .. bytes |-> (startByte + x - 1) * 8], {}, Zero, {})

\* Lines 67-121: processAsText after the multiplex check.
TextBody(sig, frame, u) ==
    IF sig.valType \in {"SIGNED_INT", "UNSIGNED_INT"}
    THEN LET raw == ProcessIntegerSignal(frame, u, sig.startBit, sig.signalSize,
                        sig.intelByteOrder, sig.valType = "SIGNED_INT")
             endResult == Scale(IntToDouble(raw, 64), sig)
         IN  TextTail(sig, DoubleToInt(endResult, 64, UndefInt(u, 64)), endResult,
                      BitIndices(sig.startBit, sig.signalSize, sig.intelByteOrder), raw)
    ELSE IF sig.valType = "SP_FLOAT"
    THEN LET raw == ProcessIntegerSignal(frame, u, sig.startBit, 32, FALSE, FALSE)
         IN  TextTail(sig, raw, Scale(FloatOfBits(raw), sig),
                      BitIndices(sig.startBit, 32, FALSE), raw)
    ELSE IF frame.len < 8 THEN Failure("text")
    ELSE LET raw == ProcessIntegerSignal(frame, u, 0, 64, FALSE, FALSE)
         IN  TextTail(sig, raw, Scale(DoubleOfBits(raw), sig),
                      BitIndices(0, 64, FALSE), raw)

\* Lines 151-163: processAsInt after the multiplex check. `result` is an
\* int32_t: the extracted int64_t is cut to its low 32 bits on assignment.
IntBody(sig, frame, u) ==
    IF frame.len * 8 < sig.startBit + sig.signalSize THEN Failure("int")
    ELSE LET raw == ProcessIntegerSignal(frame, u, sig.startBit, sig.signalSize,
                        sig.intelByteOrder, sig.valType = "SIGNED_INT")
             endResult == Scale(IntToDouble(ToInt32(raw), 32), sig)
             result == DoubleToInt(endResult, 32, UndefInt(u, 32))
         IN  R(TRUE, result,
               BitIndices(sig.startBit, sig.signalSize, sig.intelByteOrder),
               raw, endResult, result)

\* processAsDouble with the DOUBLE_FLOAT branch reading at the configured
\* position and byte order.
DoubleBodyMut(sig, frame, u) ==
    IF sig.valType = "DP_FLOAT" /\ frame.len >= 8
    THEN LET raw == ProcessIntegerSignal(frame, u, sig.startBit, 64,
                        sig.intelByteOrder, FALSE)
             endResult == Scale(DoubleOfBits(raw), sig)
         IN  R(TRUE, endResult, BitIndices(sig.startBit, 64, sig.intelByteOrder),
               raw, endResult, raw)
    ELSE Failure("double")

\* Lines 193-235: processAsDouble after the multiplex check.
DoubleBody(sig, frame, u) ==
    IF sig.valType \in {"SIGNED_INT", "UNSIGNED_INT"}
    THEN IF frame.len * 8 < sig.startBit + sig.signalSize THEN Failure("double")
         ELSE LET raw == ProcessIntegerSignal(frame, u, sig.startBit, sig.signalSize,
                             sig.intelByteOrder, sig.valType = "SIGNED_INT")
                  endResult == Scale(IntToDouble(raw, 64), sig)
              IN  R(TRUE, endResult,
                    BitIndices(sig.startBit, sig.signalSize, sig.intelByteOrder),
                    raw, endResult, DoubleToInt(endResult, 64, UndefInt(u, 64)))
    ELSE IF sig.valType = "SP_FLOAT"
    THEN IF frame.len * 8 < sig.startBit + 32 THEN Failure("double")
         ELSE LET raw == ProcessIntegerSignal(frame, u, sig.startBit, 32, FALSE, FALSE)
                  endResult == Scale(FloatOfBits(raw), sig)
              IN  R(TRUE, endResult, BitIndices(sig.startBit, 32, FALSE),
                    raw, endResult, raw)
    ELSE IF frame.len < 8 THEN Failure("double")
    ELSE LET raw == ProcessIntegerSignal(frame, u, 0, 64, FALSE, FALSE)
             endResult == Scale(DoubleOfBits(raw), sig)
         IN  R(TRUE, endResult, BitIndices(0, 64, FALSE), raw, endResult, raw)

Body(fn, sig, frame, u) ==
    IF fn = "text" THEN TextBody(sig, frame, u)
    ELSE IF fn = "int" THEN IntBody(sig, frame, u)
    ELSE DoubleBody(sig, frame, u)

\* The value-type test that opens each function, ahead of the multiplex check
\* (lines 45, 134, 176): TRUE when the function returns right there.
ReturnsEarly(fn, sig) ==
    IF fn = "text" THEN sig.valType = "STRING"
    ELSE IF fn = "int" THEN sig.valType \in {"STRING", "SP_FLOAT", "DP_FLOAT"}
    ELSE sig.valType = "STRING"

\* ... and what it returns there.
EarlyResult(fn, sig, frame, u) ==
    IF fn = "text" THEN TextString(sig, frame, u) ELSE Failure(fn)

\* A multiplex check that lets every selector value through.
MismatchMut(val, sig) == FALSE

\* val != multiplexValue
Mismatch(val, sig) == val # IntBits(sig.multiplexValue, 32)

\* ------------------------------------------------------------ inputs

One == D(FALSE, {0})

Half == D(FALSE, {0 - 1})

Quarter == D(FALSE, {0 - 2})

Two == D(FALSE, {1})

MinusOne == D(TRUE, {0})

Scalings == {<<One, Zero>>, <<Half, Zero>>, <<Half, Two>>, <<Quarter, MinusOne>>}

ValueTable == <<[value |-> 0, descript |-> "OFF"], [value |-> 1, descript |-> "ON"]>>

StartBits == {0, 7, 12, 20}

SignalSizes == {2, 8, 16, 40}

ByteVals == {1, 64, 255}

FrameOf(len, hot, b) == [len |-> len, data |-> [i \in 1 .. len |-> IF i = hot THEN b ELSE 0]]

\* Frames of 0 .. MaxFrameLen bytes, all zero but for one of the first two bytes.
Frames ==
    {FrameOf(len, 0, 0) : len \in 0 .. MaxFrameLen}
    \cup {FrameOf(len, hot, b) : len \in 1 .. MaxFrameLen, hot \in 1 .. 2, b \in ByteVals}

\* A message whose multiplexor candidate M sits in the low two bits of byte 0,
\* with two signals A and B that differ in their selector only.
MuxMessages ==
    {[sigs |-> <<m, a, [a EXCEPT !.name = "B", !.multiplexValue = 1]>>,
      multiplexorSignal |-> mx] :
        m \in {Signal("M", "UNSIGNED_INT", 0, 2, TRUE, FALSE, 0, One, Zero, <<>>),
               Signal("M", "UNSIGNED_INT", 0, 2, TRUE, TRUE, 0, One, Zero, <<>>),
               Signal("M", "SP_FLOAT", 0, 2, TRUE, FALSE, 0, One, Zero, <<>>)},
        a \in {Signal("A", vt, 8, 8, TRUE, mux, 0, One, Zero, <<>>) :
                  vt \in ValTypes, mux \in BOOLEAN},
        mx \in {NULL, 1, 2}}

\* A message of one plain signal, of every type, position, size and byte order.
LayoutMessages ==
    {[sigs |-> <<Signal("A", vt, sb, sz, intel, FALSE, 0, One, Zero, <<>>)>>,
      multiplexorSignal |-> NULL] :
        vt \in ValTypes, sb \in StartBits, sz \in SignalSizes, intel \in BOOLEAN}

\* A message of one numeric Motorola signal starting in byte 0, scaled, with or
\* without a value table.
ScaledMessages ==
    {[sigs |-> <<Signal("A", vt, 7, sz, FALSE, FALSE, 0, sc[1], sc[2], vl)>>,
      multiplexorSignal |-> NULL] :
        vt \in ValTypes \ {"STRING"}, sz \in {8, 40}, sc \in Scalings,
        vl \in {<<>>, ValueTable}}

Messages == MuxMessages \cup LayoutMessages \cup ScaledMessages

\* ------------------------------------------------------------ state

Threads == {1, 2}

Functions == {"text", "int", "double"}

VARIABLES
    sigs,               \* the message's signals (DBC_SIGNAL), by index
    multiplexorSignal,  \* DBC_MESSAGE::multiplexorSignal: a signal index or NULL
    pc,                 \* per thread: unstarted, idle, running, done, overflow
    stack,              \* per thread: the activations of its decode call
    frame,              \* per thread: the CANFrame being decoded
    undef,              \* per thread: what undefined behaviour yields in this call
    ret,                \* per thread: what the last returned sub-call handed back
    outcome,            \* per thread: what the finished call handed back
    dlcMax              \* the longest frame the bus delivers, in bytes

vars == <<sigs, multiplexorSignal, pc, stack, frame, undef, ret, outcome, dlcMax>>

NoMux == [called |-> FALSE, ok |-> FALSE, val |-> {}]

NoOutcome == [fn |-> "none", sig |-> 0, res |-> Failure("int"), mux |-> NoMux]

Start(msgs, started, dlc) ==
    /\ \E m \in msgs : sigs = m.sigs /\ multiplexorSignal = m.multiplexorSignal
    /\ dlcMax = dlc
    /\ pc = [t \in Threads |-> IF t \in started THEN "idle" ELSE "unstarted"]
    /\ stack = [t \in Threads |-> <<>>]
    /\ frame = [t \in Threads |-> FrameOf(0, 0, 0)]
    /\ undef = [t \in Threads |-> 0]
    /\ ret = [t \in Threads |-> Failure("int")]
    /\ outcome = [t \in Threads |-> NoOutcome]

\* One decoding thread, every message, frames of every length.
Init == Start(Messages, {1}, MaxFrameLen)

\* Two decoding threads on one multiplexed message, frames of at most one byte.
ConcMessages ==
    {m \in MuxMessages : /\ m.multiplexorSignal = 1
                         /\ m.sigs[2].valType = "UNSIGNED_INT"
                         /\ m.sigs[2].isMultiplexed}

InitConc == Start(ConcMessages, Threads, 1)

Top(t) == stack[t][Len(stack[t])]

Crashed == \E t \in Threads : pc[t] = "overflow"

\* A decode function that left a mark in the definition it ran on.
StoreMembersMut(defs, id) == [defs EXCEPT ![id].multiplexValue = 1 - @]

\* The members of the definitions after signal `id` has run a decode function:
\* no function assigns a member of DBC_SIGNAL or DBC_MESSAGE.
StoreMembers(defs, id) == defs

\* A function returns r: to its caller, or, as the outermost call, to the user.
Return(t, r, m) ==
    /\ sigs' = StoreMembers(sigs, Top(t).sig)
    /\ UNCHANGED <<multiplexorSignal, frame, undef, dlcMax>>
    /\ IF Len(stack[t]) = 1
       THEN /\ pc' = [pc EXCEPT ![t] = "done"]
            /\ stack' = [stack EXCEPT ![t] = <<>>]
            /\ outcome' = [outcome EXCEPT ![t] =
                   [fn |-> Top(t).fn, sig |-> Top(t).sig, res |-> r, mux |-> m]]
            /\ UNCHANGED ret
       ELSE /\ stack' = [stack EXCEPT ![t] = SubSeq(@, 1, Len(@) - 1)]
            /\ ret' = [ret EXCEPT ![t] = r]
            /\ UNCHANGED <<pc, outcome>>

\* The top activation reaches the call of the multiplexor's processAsInt.
CallsMultiplexor(a) ==
    /\ ~ReturnsEarly(a.fn, sigs[a.sig])
    /\ sigs[a.sig].isMultiplexed
    /\ multiplexorSignal # NULL

\* A thread calls processAsText, processAsInt or processAsDouble of a signal.
Begin(t) ==
    /\ ~Crashed
    /\ pc[t] = "idle"
    /\ \E fn \in Functions, s \in DOMAIN sigs, f \in Frames, u \in 0 .. 1 :
        /\ f.len <= dlcMax
        /\ stack' = [stack EXCEPT ![t] = <<[fn |-> fn, sig |-> s, ph |-> "entry"]>>]
        /\ frame' = [frame EXCEPT ![t] = f]
        /\ undef' = [undef EXCEPT ![t] = u]
    /\ pc' = [pc EXCEPT ![t] = "running"]
    /\ ret' = [ret EXCEPT ![t] = Failure("int")]
    /\ outcome' = [outcome EXCEPT ![t] = NoOutcome]
    /\ UNCHANGED <<sigs, multiplexorSignal, dlcMax>>

\* The function runs from its entry to a return without calling the multiplexor.
Run(t) ==
    /\ ~Crashed
    /\ pc[t] = "running"
    /\ Top(t).ph = "entry"
    /\ ~CallsMultiplexor(Top(t))
    /\ LET a == Top(t)
           sig == sigs[a.sig]
       IN  Return(t, IF ReturnsEarly(a.fn, sig) THEN EarlyResult(a.fn, sig, frame[t], undef[t])
                     ELSE IF sig.isMultiplexed THEN Failure(a.fn)
                     ELSE Body(a.fn, sig, frame[t], undef[t]),
                  NoMux)

\* parentMessage->multiplexorSignal->processAsInt(frame, val)
Descend(t) ==
    /\ ~Crashed
    /\ pc[t] = "running"
    /\ Top(t).ph = "entry"
    /\ CallsMultiplexor(Top(t))
    /\ Len(stack[t]) < StackLimit
    /\ stack' = [stack EXCEPT ![t] =
           Append([@ EXCEPT ![Len(@)].ph = "wait"],
                  [fn |-> "int", sig |-> multiplexorSignal, ph |-> "entry"])]
    /\ UNCHANGED <<sigs, multiplexorSignal, pc, frame, undef, ret, outcome, dlcMax>>

\* The same call with the stack exhausted: the process dies.
Overflow(t) ==
    /\ ~Crashed
    /\ pc[t] = "running"
    /\ Top(t).ph = "entry"
    /\ CallsMultiplexor(Top(t))
    /\ Len(stack[t]) >= StackLimit
    /\ pc' = [pc EXCEPT ![t] = "overflow"]
    /\ UNCHANGED <<sigs, multiplexorSignal, stack, frame, undef, ret, outcome, dlcMax>>

\* The multiplexor's processAsInt has returned: the rest of the function.
Resume(t) ==
    /\ ~Crashed
    /\ pc[t] = "running"
    /\ Top(t).ph = "wait"
    /\ LET a == Top(t)
           sig == sigs[a.sig]
       IN  Return(t, IF ~ret[t].ok THEN Failure(a.fn)
                     ELSE IF Mismatch(ret[t].out, sig) THEN Failure(a.fn)
                     ELSE Body(a.fn, sig, frame[t], undef[t]),
                  [called |-> TRUE, ok |-> ret[t].ok, val |-> ret[t].out])

\* The caller has taken the result; the thread is free for its next call.
Finish(t) ==
    /\ ~Crashed
    /\ pc[t] = "done"
    /\ pc' = [pc EXCEPT ![t] = "idle"]
    /\ outcome' = [outcome EXCEPT ![t] = NoOutcome]
    /\ frame' = [frame EXCEPT ![t] = FrameOf(0, 0, 0)]
    /\ undef' = [undef EXCEPT ![t] = 0]
    /\ UNCHANGED <<sigs, multiplexorSignal, stack, ret, dlcMax>>

Next ==
    \E t \in Threads :
        \/ Begin(t)
        \/ Run(t)
        \/ Descend(t)
        \/ Overflow(t)
        \/ Resume(t)
        \/ Finish(t)

Spec == Init /\ [][Next]_vars

SpecConc == InitConc /\ [][Next]_vars

\* ------------------------------------------------------------ a call run alone

\* A decode call run to its end with nothing else running: the three functions
\* as one recursive function. crashed: the recursion exhausted the stack.
RECURSIVE DecodeAlone(_, _, _, _, _)
DecodeAlone(fn, id, f, u, depth) ==
    LET sig == sigs[id]
        ran(r) == [crashed |-> FALSE, res |-> r]
    IN  IF ReturnsEarly(fn, sig) THEN ran(EarlyResult(fn, sig, f, u))
        ELSE IF ~sig.isMultiplexed THEN ran(Body(fn, sig, f, u))
        ELSE IF multiplexorSignal = NULL THEN ran(Failure(fn))
        ELSE IF depth >= StackLimit THEN [crashed |-> TRUE, res |-> Failure(fn)]
        ELSE LET m == DecodeAlone("int", multiplexorSignal, f, u, depth + 1)
             IN  IF m.crashed THEN [crashed |-> TRUE, res |-> Failure(fn)]
                 ELSE IF ~m.res.ok THEN ran(Failure(fn))
                 ELSE IF Mismatch(m.res.out, sig) THEN ran(Failure(fn))
                 ELSE ran(Body(fn, sig, f, u))

\* processAsInt of the message's multiplexor on thread t's frame.
MultiplexorValue(t) == DecodeAlone("int", multiplexorSignal, frame[t], undef[t], 1)

\* The multiplex check of signal sig passes on thread t's frame.
Selected(t, sig) ==
    /\ multiplexorSignal # NULL
    /\ ~MultiplexorValue(t).crashed
    /\ MultiplexorValue(t).res.ok
    /\ MultiplexorValue(t).res.out = IntBits(sig.multiplexValue, 32)

Done(t) == pc[t] = "done"

Called(t, fns) == Done(t) /\ outcome[t].fn \in fns

Sig(t) == sigs[outcome[t].sig]

IsInt(sig) == sig.valType \in {"SIGNED_INT", "UNSIGNED_INT"}

Short(t) == Sig(t).startBit + Sig(t).signalSize > frame[t].len * 8

\* ------------------------------------------------------------ claims

\* C1: in each of the three functions a non-STRING multiplexed signal decodes
\* successfully only if the message has a multiplexor, processAsInt of that
\* multiplexor on the same frame succeeds and yields the signal's
\* multiplexValue; and when it does, a function that accepts the signal's type
\* returns what its remaining part computes (so with M = 1, A of selector 0
\* fails and B of selector 1 decodes).
C1_MultiplexGating ==
    \A t \in Threads :
        (Done(t) /\ Sig(t).isMultiplexed /\ Sig(t).valType # "STRING") =>
            /\ outcome[t].res.ok => Selected(t, Sig(t))
            /\ (Selected(t, Sig(t)) /\ ~ReturnsEarly(outcome[t].fn, Sig(t))) =>
                   outcome[t].res = Body(outcome[t].fn, Sig(t), frame[t], undef[t])

\* B (selector 1) has decoded on a frame where M is 1.
C1_Witness ==
    \E t \in Threads :
        /\ Called(t, Functions)
        /\ Sig(t).name = "B" /\ Sig(t).isMultiplexed /\ Sig(t).valType = "UNSIGNED_INT"
        /\ outcome[t].res.ok
        /\ outcome[t].mux.val = {0}

\* C2: every decode call ends with a success or failure outcome, whatever the
\* definitions: the multiplexor recursion never exhausts the stack.
C2_AlwaysReturns == \A t \in Threads : pc[t] # "overflow"

\* C3: when startBit + signalSize exceeds the frame's bit length, each of the
\* three functions returns failure and reads nothing from the frame.
C3_ShortFrameGuard ==
    \A t \in Threads :
        (Called(t, Functions) /\ Short(t)) =>
            ~outcome[t].res.ok /\ outcome[t].res.reads = <<>>

\* C5: processAsText of a multiplexed STRING signal succeeds only if the
\* multiplex check passes.
C5_StringMultiplexCheck ==
    \A t \in Threads :
        (Called(t, {"text"}) /\ Sig(t).valType = "STRING" /\ Sig(t).isMultiplexed
         /\ outcome[t].res.ok)
            => Selected(t, Sig(t))

\* C4: when processAsInt or processAsDouble passes its length guard for an
\* integer signal and extracts, every bit index consumed lies inside the
\* frame, in both byte orders.
C4_ReadsInsideFrame ==
    \A t \in Threads :
        (Called(t, {"int", "double"}) /\ IsInt(Sig(t)) /\ outcome[t].res.ok) =>
            \A i \in DOMAIN outcome[t].res.reads :
                /\ outcome[t].res.reads[i] >= 0
                /\ outcome[t].res.reads[i] < frame[t].len * 8

\* C6: for a SINGLE_FLOAT signal processAsText and processAsDouble extract the
\* 32-bit pattern at the signal's startBit in the signal's own byte order.
C6_FloatByteOrder ==
    \A t \in Threads :
        (Called(t, {"text", "double"}) /\ Sig(t).valType = "SP_FLOAT"
         /\ outcome[t].res.ok) =>
            /\ outcome[t].res.reads =
                   BitIndices(Sig(t).startBit, 32, Sig(t).intelByteOrder)
            /\ outcome[t].res.raw =
                   ProcessIntegerSignal(frame[t], undef[t], Sig(t).startBit, 32,
                                        Sig(t).intelByteOrder, FALSE)

\* The text the value-table lookup yields when it is keyed by the truncated
\* integer of the scaled value.
KeyedText(sig, endResult, u) ==
    LET key  == DoubleToInt(endResult, 64, UndefInt(u, 64))
        hits == {x \in 1 .. Len(sig.valList) : IntBits(sig.valList[x].value, 64) = key}
    IN  IF hits # {} THEN <<sig.name, ": ", sig.valList[Min(hits)].descript>>
        ELSE <<sig.name, ": ", QStringNumber(endResult), sig.unitName>>

\* C7: in processAsText, for every non-STRING type with a value table, the key
\* looked up is the truncated integer of scaled = raw*factor + bias, and the
\* text is "<name>: <description>" of the first entry with that key, else
\* "<name>: <number><unit>" (stated where that integer exists: scaled is a
\* finite value within the 64-bit range).
C7_ValueTableKey ==
    \A t \in Threads :
        (Called(t, {"text"}) /\ Sig(t).valType # "STRING" /\ outcome[t].res.ok
         /\ Len(Sig(t).valList) > 0
         /\ Representable(outcome[t].res.endResult, 64)) =>
            /\ outcome[t].res.key =
                   DoubleToInt(outcome[t].res.endResult, 64, UndefInt(undef[t], 64))
            /\ outcome[t].res.out =
                   KeyedText(Sig(t), outcome[t].res.endResult, undef[t])

\* C8: processAsInt returns the 32-bit truncation of raw*factor + bias, raw
\* being the whole signalSize-bit extracted value, for sizes up to 64 bits
\* (stated where the scaled value lies within the 32-bit range).
C8_ExtractScaleTruncate ==
    \A t \in Threads :
        (Called(t, {"int"}) /\ outcome[t].res.ok
         /\ Representable(Scale(IntToDouble(outcome[t].res.raw, 64), Sig(t)), 32)) =>
            outcome[t].res.out =
                DoubleToInt(Scale(IntToDouble(outcome[t].res.raw, 64), Sig(t)),
                            32, UndefInt(undef[t], 32))

\* The definitions that differ from sig in one of startBit, signalSize and byte
\* order only (every combination of the three is some message's layout).
Relaid(sig) ==
    {[sig EXCEPT !.startBit = sb] : sb \in StartBits}
        \cup {[sig EXCEPT !.signalSize = sz] : sz \in SignalSizes}
        \cup {[sig EXCEPT !.intelByteOrder = io] : io \in BOOLEAN}

\* C9: for a DOUBLE_FLOAT signal that passes the multiplex check,
\* processAsDouble fails iff frame.len < 8 and otherwise extracts 64 bits from
\* bit 0: outcome, bits read and pattern are those of every definition that
\* differs in startBit, signalSize or byte order only.
C9_DoubleWholeFrame ==
    \A t \in Threads :
        (Called(t, {"double"}) /\ Sig(t).valType = "DP_FLOAT"
         /\ (Sig(t).isMultiplexed => Selected(t, Sig(t)))) =>
            /\ outcome[t].res.ok <=> frame[t].len >= 8
            /\ outcome[t].res.ok =>
                   /\ Len(outcome[t].res.reads) = 64
                   /\ outcome[t].res.reads[1] = 0
            /\ \A other \in Relaid(Sig(t)) :
                   DoubleBody(other, frame[t], undef[t]) = outcome[t].res

\* A DOUBLE_FLOAT signal configured away from bit 0 has decoded.
C9_Witness ==
    \E t \in Threads :
        /\ Called(t, {"double"})
        /\ Sig(t).valType = "DP_FLOAT" /\ Sig(t).startBit = 12 /\ Sig(t).intelByteOrder
        /\ outcome[t].res.ok
        /\ outcome[t].res.raw # {}

\* C10: no step of a decode call assigns a signal definition, the message's
\* multiplexorSignal or the frame of a call in progress, and every call that
\* returns while other threads decode against the same definitions returns the
\* outcome and value of that call run alone.
C10_ConcurrentAsAlone ==
    /\ [][/\ sigs' = sigs
          /\ multiplexorSignal' = multiplexorSignal
          /\ \A t \in Threads : pc[t] = "running" => frame'[t] = frame[t]]_vars
    /\ [](\A t \in Threads :
             Done(t) =>
                 LET alone == DecodeAlone(outcome[t].fn, outcome[t].sig,
                                          frame[t], undef[t], 1)
                 IN  ~alone.crashed /\ outcome[t].res = alone.res)

\* A multiplexed call has returned a value while the other thread, decoding a
\* different frame, waits inside its own multiplexor call.
C10_Witness ==
    \E t, o \in Threads :
        /\ t # o
        /\ Done(t) /\ outcome[t].mux.called /\ outcome[t].res.ok
        /\ pc[o] = "running" /\ Len(stack[o]) = 2
        /\ frame[o] # frame[t]

====
